---- MODULE Spec2Model ----
(***************************************************************************)
(* Admission-and-release engine of the virtual waiting room:               *)
(*   app/api/queue_users.py     join_queue, queue_status, cancel_queue     *)
(*   app/workers/queue_worker.py QueueWorker (release pass, callback       *)
(*                               dispatch with retries, expiration sweep)  *)
(* The participant store (table queue_users), the log table and the        *)
(* per-process Prometheus counters are the state.  Every database query    *)
(* and every commit is one atomic step; a worker is suspended between a    *)
(* query and the commits that follow it (await points, other processes     *)
(* and request threads run in between).                                    *)
(*                                                                         *)
(* Time is an integer clock whose unit is the admission window             *)
(* (timedelta(minutes=10)); timestamps are only compared and subtracted.   *)
(***************************************************************************)
EXTENDS Integers, Sequences, FiniteSets

\* ------------------------------------------------------------------ bounds
MaxUsers == 2
MaxTime == 2
MaxQuota == 2
MaxCycles == 2
\* simulated admissions followed, rate-limiter ceilings and clock readings
MaxSims == 1
MaxCeiling == 2
MaxNegativeQuota == 1
MaxRateTime == 2

\* ------------------------------------------------------- program constants
\* retries = 3 in send_callback
retries == 3
\* expires_at = utcnow() + timedelta(minutes=10): one clock unit
AdmissionWindow == 1
\* self.window_size = 60 in RateLimiter: two units of the rate limiter's clock
window_size == 2

\* the worker processes sharing the store (one QueueWorker per process)
Workers == {"w1", "w2"}
\* the provisioned applications and queues (read-only to the engine)
Apps == {"A", "B"}
Queues == {"q1", "q2"}
QueueOwner == [q \in Queues |-> IF q = "q1" THEN "A" ELSE "B"]
ApiKeyOf == [a \in Apps |-> IF a = "A" THEN "keyA" ELSE "keyB"]
\* values of the app_api_key header: absent, unknown, or an application's key
ApiKeys == {"none", "bad", "keyA", "keyB"}
\* queue ids a join request can carry: a known queue or an unknown id
QueueIds == Queues \cup {"q0"}
Modes == {"real", "simulation"}
\* network origins of requests (request.client.host or X-Forwarded-For)
Hosts == {"ip1"}
\* rate limiter keys: "api_key:<key>" or "ip:<origin>"
ClientIds == (ApiKeys \ {"none"}) \cup Hosts
\* uuid4().hex values: the n-th value generated is n; 1..MaxTokens can be
\* presented as tokens, issued or not
MaxTokens == MaxUsers + MaxSims
Tokens == 1..MaxTokens
\* QueueUserStatus
Terminal == {"ready", "expired", "rejected"}

VARIABLES
    now,        \* datetime.utcnow()
    apps,       \* table applications
    queues,     \* table queues
    users,      \* table queue_users: sequence of rows, token = row index
    logs,       \* table logs: number of callback_failure rows per queue_user_id
    running,    \* QueueWorker.running
    pc,         \* position of each worker in start()
    counting,   \* history: whether the iterations of the loop are counted
    cycles,     \* history: completed iterations of the loop in start(), per
                \* worker (stays 0 unless counting)
    qlist,      \* process_queues: queues still to be processed in this pass
    curq,       \* process_queue: the queue argument
    sel,        \* process_queue: waiting_users, the rows selected
    idx,        \* process_queue: position of the for loop in waiting_users
    cb,         \* send_callback: locals of the dispatch in progress / last done
    swsel,      \* cleanup_expired_tokens: expired_users, the rows selected
    metrics,    \* Prometheus counters of each worker process
    gauge,      \* QUEUE_SIZE gauge of each worker process, per queue
    releases,   \* history: number of release_user commits per participant
    dispatched, \* history: number of send_callback calls per participant
    uuids,      \* number of uuid4() tokens generated so far
    simulated,  \* history: tokens answered by simulation-mode admissions
    lifespan,   \* lifespan() of each process: serving, stopping, closed
    max_requests, \* RateLimiter.max_requests (RATE_LIMIT_PER_MINUTE)
    rltime,     \* time.time() as read by the rate limiter
    requests,   \* RateLimiter.requests: timestamps kept per client id
    allowed,    \* history: requests allowed per client id and clock reading
    denied,     \* history: whether a request was rejected, per client id and
                \* clock reading
    resp        \* history: the last request served and its response

vars == <<now, apps, queues, users, logs, running, pc, counting, cycles, qlist,
          curq, sel, idx, cb, swsel, metrics, gauge, releases, dispatched,
          uuids, simulated, lifespan, max_requests, rltime, requests, allowed,
          denied, resp>>

cfgVars == <<apps, queues, counting, max_requests>>
passVars == <<qlist, curq, sel, idx>>
\* the process lifecycle and the rate limiter's clock
envVars == <<lifespan, rltime>>
\* what the HTTP layer (middleware, response) writes
httpVars == <<resp, requests, allowed, denied>>
\* token generation
idVars == <<uuids, simulated>>
\* what neither the clock nor the worker writes
worldVars == <<cfgVars, envVars, httpVars, idVars>>
\* everything a request handler can read or write below the HTTP layer
coreVars == <<now, cfgVars, envVars, users, logs, running, pc, cycles, passVars,
              cb, swsel, metrics, gauge, releases, dispatched, idVars>>

\* ----------------------------------------------------------------- helpers
Min(a, b) == IF a < b THEN a ELSE b

UserIds == DOMAIN users

\* send_callback's locals and effects for one dispatch: the row, the POSTs
\* made, the backoff delays slept, success, whether it has returned, and what
\* it added to CALLBACK_SUCCESS, CALLBACK_FAILURE and the log table;
\* first_ok is history: the first POST the endpoint answers 2xx (0: none)
NoCb == [user |-> 0, attempts |-> 0, delays |-> <<>>, success |-> FALSE,
         done |-> FALSE, succ_inc |-> 0, fail_inc |-> 0, logged |-> 0,
         first_ok |-> 0]

\* ------------------------------------------------------------------- store
\* mutant: the status filter is missing from the query
WaitingInAnyStatus(q) ==
    {u \in UserIds : users[u].queue_id = q /\ ~users[u].is_deleted}

\* mutant: the queue filter is missing, every queue draws from one pool
WaitingInAnyQueue(q) ==
    {u \in UserIds : users[u].status = "waiting" /\ ~users[u].is_deleted}

\* filter_by(queue_id=queue.id, status=waiting, is_deleted=False)
WaitingIn(q) ==
    {u \in UserIds : /\ users[u].queue_id = q
                     /\ users[u].status = "waiting"
                     /\ ~users[u].is_deleted}

\* mutant: the order_by is dropped, the rows come in any order
OrderByNothing(S) ==
    {s \in [1..Cardinality(S) -> S] :
        \A i, j \in 1..Cardinality(S) : i < j => s[i] # s[j]}

\* .order_by(QueueUser.created_at): every listing of S in non-decreasing
\* created_at order (rows with equal created_at come in any order)
OrderByCreatedAt(S) ==
    {s \in [1..Cardinality(S) -> S] :
        /\ \A i, j \in 1..Cardinality(S) : i < j =>
              /\ s[i] # s[j]
              /\ users[s[i]].created_at <= users[s[j]].created_at}

\* mutant: the limit is off by one
LimitOffByOne(s, n) == SubSeq(s, 1, Min(n + 1, Len(s)))

\* .limit(n)
Limit(s, n) == SubSeq(s, 1, Min(n, Len(s)))

\* waiting_users query of process_queue
WaitingUsersQuery(q) ==
    {Limit(s, queues[q].max_users_per_minute) : s \in OrderByCreatedAt(WaitingIn(q))}

\* mutant: the queues query does not filter on is_active
ActiveQueuesAnyActivity == {q \in Queues : ~queues[q].is_deleted}

\* queues query of process_queues: filter_by(is_active=True, is_deleted=False)
ActiveQueues == {q \in Queues : queues[q].is_active /\ ~queues[q].is_deleted}

\* .all() without order_by: the rows in any order
AnyOrder(S) ==
    {s \in [1..Cardinality(S) -> S] :
        \A i, j \in 1..Cardinality(S) : i < j => s[i] # s[j]}

\* mutant: the sweep looks only at the queues in service
ExpiredUsersQueryInService ==
    {u \in UserIds : /\ users[u].status = "waiting"
                     /\ users[u].expires_at < now
                     /\ ~users[u].is_deleted
                     /\ users[u].queue_id \in ActiveQueues}

\* expired_users query of cleanup_expired_tokens
ExpiredUsersQuery ==
    {u \in UserIds : /\ users[u].status = "waiting"
                     /\ users[u].expires_at < now
                     /\ ~users[u].is_deleted}

\* mutant: the release commit leaves the status as it is
ReleaseWriteNoStatus(row) == [row EXCEPT !.wait_time = <<now - row.created_at>>]

\* release_user: the row as written by the commit
ReleaseWrite(row) ==
    [row EXCEPT !.status = "ready", !.wait_time = <<now - row.created_at>>]

\* mutant: the sweep leaves the row as it is
ExpireWriteNothing(row) == row

\* cleanup_expired_tokens: the row as written by the commit
ExpireWrite(row) == [row EXCEPT !.status = "expired"]

\* mutant: the cancellation writes expired
CancelWriteExpired(row) == [row EXCEPT !.status = "expired", !.is_deleted = TRUE]

\* cancel_queue: the row as written by the commit
CancelWrite(row) == [row EXCEPT !.status = "rejected", !.is_deleted = TRUE]

\* mutant: a constant delay between attempts
BackoffConstant(attempt) == 1

\* asyncio.sleep(2 ** attempt)
Backoff(attempt) == 2 ^ attempt

\* ------------------------------------------------------------------- Init
InitUsers == <<>>

\* the queue table as provisioned: every queue owned by its application, a
\* positive quota, active; the queues in `deleted` soft-deleted (delete_queue)
QueueTables(deleted) ==
    {qs \in [Queues -> [application_id : Apps, max_users_per_minute : 1..MaxQuota,
                         is_active : {TRUE}, is_deleted : BOOLEAN]] :
        \A q \in Queues : /\ qs[q].application_id = QueueOwner[q]
                           /\ qs[q].is_deleted = (q \in deleted)}

\* no request served yet
NoResponse ==
    [kind |-> "none", client |-> "none", api_key |-> "none", qid |-> "q0",
     mode |-> "real", code |-> 0, token |-> 0, status |-> "none",
     wait_time |-> <<>>]

InitCommon ==
    /\ apps = [a \in Apps |-> [api_key |-> ApiKeyOf[a], is_active |-> TRUE,
                               is_deleted |-> FALSE]]
    /\ logs = [u \in 1..MaxUsers |-> 0]
    /\ running = [w \in Workers |-> FALSE]
    /\ cycles = [w \in Workers |-> 0]
    /\ qlist = [w \in Workers |-> <<>>]
    /\ curq = [w \in Workers |-> "q0"]
    /\ sel = [w \in Workers |-> <<>>]
    /\ idx = [w \in Workers |-> 1]
    /\ cb = [w \in Workers |-> NoCb]
    /\ swsel = [w \in Workers |-> {}]
    /\ metrics = [w \in Workers |-> [released |-> 0, expired |-> 0,
                                     callback_success |-> 0, callback_failure |-> 0]]
    /\ gauge = [w \in Workers |-> [q \in Queues |-> 0]]
    /\ releases = [u \in 1..MaxUsers |-> 0]
    /\ dispatched = [u \in 1..MaxUsers |-> 0]
    /\ simulated = {}
    /\ lifespan = [w \in Workers |-> "serving"]
    /\ rltime = 0
    /\ requests = [c \in ClientIds |-> <<>>]
    /\ allowed = [c \in ClientIds |-> [i \in 0..MaxRateTime |-> 0]]
    /\ denied = [c \in ClientIds |-> [i \in 0..MaxRateTime |-> FALSE]]
    /\ resp = NoResponse

\* one application process, hence one QueueWorker ("w1")
Init ==
    /\ InitCommon
    /\ pc = [w \in Workers |-> IF w = "w1" THEN "init" ELSE "absent"]
    /\ queues \in QueueTables({})
    /\ users = InitUsers
    /\ uuids = 0
    /\ max_requests = MaxCeiling
    /\ now = 0
    /\ counting = FALSE

\* participants admitted at distinct times (created_at strictly increasing),
\* all still waiting
Backlogs ==
    UNION {{[i \in 1..n |->
                [queue_id |-> qa[i], status |-> "waiting", token |-> i,
                 created_at |-> ts[i], expires_at |-> ts[i] + AdmissionWindow,
                 wait_time |-> <<>>, is_deleted |-> FALSE]] :
              qa \in [1..n -> Queues],
              ts \in {f \in [1..n -> 0..MaxTime] :
                         \A i, j \in 1..n : i < j => f[i] < f[j]}}
           : n \in 1..MaxUsers}

\* one worker process and a backlog of waiting participants, the clock at the
\* last admission
InitBacklog ==
    /\ InitCommon
    /\ pc = [w \in Workers |-> IF w = "w1" THEN "init" ELSE "absent"]
    /\ queues \in QueueTables({})
    /\ users \in Backlogs
    /\ uuids = Len(users)
    /\ max_requests = MaxCeiling
    /\ now = users[Len(users)].created_at
    /\ counting = TRUE

\* two application processes on the same database, one QueueWorker each;
\* queue q2 has been soft-deleted, q1 is in service
InitHA ==
    /\ InitCommon
    /\ pc = [w \in Workers |-> "init"]
    /\ queues \in {qs \in QueueTables({"q2"}) : qs["q2"].max_users_per_minute = 1}
    /\ users = InitUsers
    /\ uuids = 0
    /\ max_requests = MaxCeiling
    /\ now = 0
    /\ counting = FALSE

\* ------------------------------------------------------------------ clock
\* the wall clock read by datetime.utcnow() advances
Tick ==
    /\ now < MaxTime
    /\ now' = now + 1
    /\ UNCHANGED <<worldVars, dispatched, users, logs, running, pc, cycles,
                   passVars, cb,
                   swsel, metrics, gauge, releases>>

\* ------------------------------------------------------ admission (join_queue)
\* db.query(Application).filter_by(api_key=api_key, is_deleted=False)
ResolveApp(api_key) ==
    {a \in Apps : apps[a].api_key = api_key /\ ~apps[a].is_deleted}

\* mutant: the queue lookup is not scoped to the application
ResolveQueueAnyOwner(a, qid) ==
    {q \in Queues : q = qid /\ ~queues[q].is_deleted}

\* db.query(Queue).filter_by(id=queue_id, application_id=app.id, is_deleted=False)
ResolveQueue(a, qid) ==
    {q \in Queues : /\ q = qid
                    /\ queues[q].application_id = a
                    /\ ~queues[q].is_deleted}

\* the HTTP status join_queue answers with
JoinStatusCode(api_key, qid) ==
    IF api_key = "none" THEN 401
    ELSE IF ResolveApp(api_key) = {} THEN 401
    ELSE IF \A a \in ResolveApp(api_key) : ResolveQueue(a, qid) = {} THEN 404
    ELSE 200

\* uuid.uuid4().hex: the next value
Uuid4 == uuids + 1

\* mutant: the row is added with a wait_time of 0
NewQueueUserWaitZero(qid) ==
    [queue_id |-> qid, status |-> "waiting", token |-> Uuid4,
     created_at |-> now, expires_at |-> now + AdmissionWindow,
     wait_time |-> <<0>>, is_deleted |-> FALSE]

\* the QueueUser row join_queue adds; created_at is the column default utcnow
NewQueueUser(qid) ==
    [queue_id |-> qid, status |-> "waiting", token |-> Uuid4,
     created_at |-> now, expires_at |-> now + AdmissionWindow,
     wait_time |-> <<>>, is_deleted |-> FALSE]

\* what join_queue answers: the HTTPException, the QueueUserResponse made up
\* in simulation mode, or the row added
JoinResponse(api_key, qid, mode) ==
    LET code == JoinStatusCode(api_key, qid) IN
    [kind |-> "join", client |-> "none", api_key |-> api_key, qid |-> qid,
     mode |-> mode, code |-> code,
     token |-> IF code = 200 THEN Uuid4 ELSE 0,
     status |-> IF code # 200 THEN "none"
                ELSE IF mode = "simulation" THEN "ready" ELSE "waiting",
     wait_time |-> IF code = 200 /\ mode = "simulation" THEN <<0>> ELSE <<>>]

\* join_queue raising HTTPException 401 or 404: nothing is written
JoinRejected(api_key, qid) ==
    /\ JoinStatusCode(api_key, qid) # 200
    /\ UNCHANGED coreVars

\* mutant: the simulated participant is stored as a ready row
JoinSimulationPersisted(api_key, qid) ==
    /\ JoinStatusCode(api_key, qid) = 200
    /\ uuids < MaxTokens
    /\ Cardinality(simulated) < MaxSims
    /\ Len(users) < MaxUsers
    /\ uuids' = uuids + 1
    /\ simulated' = simulated \cup {Uuid4}
    /\ users' = Append(users, [NewQueueUser(qid) EXCEPT !.status = "ready",
                                                       !.wait_time = <<0>>])
    /\ UNCHANGED <<now, cfgVars, envVars, logs, running, pc, cycles,
                   passVars, cb, swsel, metrics, gauge, releases, dispatched>>

\* join_queue with mode == "simulation": a QueueUserResponse made up in the
\* handler around a fresh uuid4 token, nothing is written
JoinSimulation(api_key, qid) ==
    /\ JoinStatusCode(api_key, qid) = 200
    /\ uuids < MaxTokens
    /\ Cardinality(simulated) < MaxSims
    /\ uuids' = uuids + 1
    /\ simulated' = simulated \cup {Uuid4}
    /\ UNCHANGED <<now, cfgVars, envVars, users, logs, running, pc, cycles,
                   passVars, cb, swsel, metrics, gauge, releases, dispatched>>

\* join_queue, real join: db.add(queue_user); db.commit()
JoinReal(api_key, qid) ==
    /\ JoinStatusCode(api_key, qid) = 200
    /\ Len(users) < MaxUsers
    /\ users' = Append(users, NewQueueUser(qid))
    /\ uuids' = uuids + 1
    /\ UNCHANGED <<now, cfgVars, envVars, simulated, logs, running, pc, cycles,
                   passVars, cb, swsel, metrics, gauge, releases, dispatched>>

JoinQueue(api_key, qid, mode) ==
    \/ JoinRejected(api_key, qid)
    \/ mode = "simulation" /\ JoinSimulation(api_key, qid)
    \/ mode # "simulation" /\ JoinReal(api_key, qid)

\* ------------------------------------- the unique constraint on QueueUser.token
\* the tokens of the rows of queue_users, soft-deleted rows included
StoredTokens == {users[u].token : u \in UserIds}

\* mutant: the constraint covers only the rows that are not soft-deleted
TokenCollidesLive(token) ==
    \E u \in UserIds : users[u].token = token /\ ~users[u].is_deleted

\* token = Column(String(64), unique=True): the INSERT of a row with this
\* token violates the constraint
TokenCollides(token) == token \in StoredTokens

\* join_queue, real join, uuid4 having produced `token`: db.commit() raises
\* IntegrityError, the session is closed without a commit
JoinCommitFails(api_key, qid, token) ==
    /\ JoinStatusCode(api_key, qid) = 200
    /\ TokenCollides(token)
    /\ UNCHANGED coreVars

\* join_queue, real join, uuid4 having produced `token`: the row is inserted
JoinCommit(api_key, qid, token) ==
    /\ JoinStatusCode(api_key, qid) = 200
    /\ ~TokenCollides(token)
    /\ Len(users) < MaxUsers
    /\ users' = Append(users, [NewQueueUser(qid) EXCEPT !.token = token])
    /\ UNCHANGED <<now, cfgVars, envVars, idVars, logs, running, pc, cycles,
                   passVars, cb, swsel, metrics, gauge, releases, dispatched>>

JoinWithToken(api_key, qid, token) ==
    \/ JoinRejected(api_key, qid)
    \/ JoinCommitFails(api_key, qid, token)
    \/ JoinCommit(api_key, qid, token)

\* what the client of such a join gets: the row added, or the 500 the error
\* handler makes of an SQLAlchemyError
JoinWithTokenResponse(api_key, qid, token) ==
    IF JoinStatusCode(api_key, qid) = 200 /\ TokenCollides(token)
    THEN [NoResponse EXCEPT !.kind = "join", !.api_key = api_key,
                            !.qid = qid, !.mode = "real", !.code = 500]
    ELSE [JoinResponse(api_key, qid, "real") EXCEPT
              !.token = IF @ = 0 THEN 0 ELSE token]

\* ------------------------------------------------- status lookup (queue_status)
\* db.query(QueueUser).filter_by(token=token, is_deleted=False)
ByToken(token) ==
    {u \in UserIds : users[u].token = token /\ ~users[u].is_deleted}

\* .first()
First(S) == CHOOSE u \in S : \A v \in S : u <= v

\* the HTTP status queue_status answers with
QueueStatusCode(token) == IF ByToken(token) = {} THEN 404 ELSE 200

\* mutant: the answer always says waiting
QueueStatusResponseStale(token) ==
    IF ByToken(token) = {}
    THEN [NoResponse EXCEPT !.kind = "status", !.code = 404, !.token = token]
    ELSE LET row == users[First(ByToken(token))] IN
         [NoResponse EXCEPT !.kind = "status", !.code = 200,
                            !.token = row.token, !.qid = row.queue_id,
                            !.status = "waiting", !.wait_time = row.wait_time]

\* what queue_status answers: the row found, or HTTPException 404
QueueStatusResponse(token) ==
    IF ByToken(token) = {}
    THEN [NoResponse EXCEPT !.kind = "status", !.code = 404, !.token = token]
    ELSE LET row == users[First(ByToken(token))] IN
         [NoResponse EXCEPT !.kind = "status", !.code = 200,
                            !.token = row.token, !.qid = row.queue_id,
                            !.status = row.status, !.wait_time = row.wait_time]

\* queue_status reads only
QueueStatus(token) == UNCHANGED coreVars

\* ------------------------------------------------- cancellation (cancel_queue)
\* the HTTP status cancel_queue answers with
CancelStatusCode(token) == IF ByToken(token) = {} THEN 404 ELSE 204

\* what cancel_queue answers: no content, or HTTPException 404
CancelResponse(token) ==
    [NoResponse EXCEPT !.kind = "cancel", !.code = CancelStatusCode(token),
                       !.token = token]

\* cancel_queue raising HTTPException 404: nothing is written
CancelNotFound(token) ==
    /\ CancelStatusCode(token) = 404
    /\ UNCHANGED coreVars

\* cancel_queue: status = rejected, is_deleted = True, db.commit()
CancelCommit(token) ==
    /\ CancelStatusCode(token) = 204
    /\ users' = [u \in UserIds |->
                    IF u = First(ByToken(token)) THEN CancelWrite(users[u])
                    ELSE users[u]]
    /\ UNCHANGED <<now, cfgVars, envVars, idVars, logs, running, pc, cycles,
                   passVars, cb, swsel, metrics, gauge, releases, dispatched>>

CancelQueue(token) == CancelNotFound(token) \/ CancelCommit(token)

\* -------------------------------------- provisioning (applications, queues)
\* update_application with is_active in the body: found unless soft-deleted
UpdateApplication(a, is_active) ==
    /\ ~apps[a].is_deleted
    /\ apps' = [apps EXCEPT ![a].is_active = is_active]
    /\ UNCHANGED <<now, queues, counting, max_requests, envVars, httpVars,
                   idVars, dispatched, users, logs, running, pc, cycles,
                   passVars, cb, swsel, metrics, gauge, releases>>

\* delete_application: is_deleted is set on the loaded object but the session
\* is closed without a commit, the table keeps the row as it was
DeleteApplication(a) ==
    /\ ~apps[a].is_deleted
    /\ UNCHANGED coreVars

\* delete_application raising HTTPException 404: the row is soft-deleted
DeleteApplicationNotFound(a) ==
    /\ apps[a].is_deleted
    /\ UNCHANGED coreVars

\* what delete_application answers: 204 No Content, or HTTPException 404; the
\* api_key field records which application the request named
DeleteApplicationResponse(a) ==
    [NoResponse EXCEPT !.kind = "delete_application",
                       !.api_key = apps[a].api_key,
                       !.code = IF apps[a].is_deleted THEN 404 ELSE 204]

\* list_applications: filter_by(is_deleted=False).all()
ListApplications == {a \in Apps : ~apps[a].is_deleted}

\* update_queue with is_active in the body: found unless soft-deleted
UpdateQueue(q, is_active) ==
    /\ ~queues[q].is_deleted
    /\ queues' = [queues EXCEPT ![q].is_active = is_active]
    /\ UNCHANGED <<now, apps, counting, max_requests, envVars, httpVars,
                   idVars, dispatched, users, logs, running, pc, cycles,
                   passVars, cb, swsel, metrics, gauge, releases>>

\* update_queue with max_users_per_minute in the body: QueueUpdate declares
\* it Optional[int] with no constraint, setattr writes it, db.commit()
UpdateQueueQuota(q, n) ==
    /\ ~queues[q].is_deleted
    /\ queues' = [queues EXCEPT ![q].max_users_per_minute = n]
    /\ UNCHANGED <<now, apps, counting, max_requests, envVars, httpVars,
                   idVars, dispatched, users, logs, running, pc, cycles,
                   passVars, cb, swsel, metrics, gauge, releases>>

\* delete_queue: is_deleted = True, db.commit()
DeleteQueue(q) ==
    /\ ~queues[q].is_deleted
    /\ queues' = [queues EXCEPT ![q].is_deleted = TRUE]
    /\ UNCHANGED <<now, apps, counting, max_requests, envVars, httpVars,
                   idVars, dispatched, users, logs, running, pc, cycles,
                   passVars, cb, swsel, metrics, gauge, releases>>

\* the Application edit form of the admin site: the row is soft-deleted
AdminSoftDelete(a) ==
    /\ ~apps[a].is_deleted
    /\ apps' = [apps EXCEPT ![a].is_deleted = TRUE]
    /\ UNCHANGED <<now, queues, counting, max_requests, envVars, httpVars,
                   idVars, dispatched, users, logs, running, pc, cycles,
                   passVars, cb, swsel, metrics, gauge, releases>>

\* ------------------------------------------------------------ request layer
\* a request the rate limiter lets through: the handler runs and the client
\* gets its response
Served(Handler, response) ==
    /\ Handler
    /\ resp' = response
    /\ UNCHANGED <<requests, allowed, denied>>

\* ------------------------------------------------- rate limiter (RateLimiter)
\* the rate limiter's clock advances
TickRate ==
    /\ rltime < MaxRateTime
    /\ rltime' = rltime + 1
    /\ UNCHANGED <<now, cfgVars, lifespan, httpVars, idVars, dispatched, users,
                   logs, running, pc, cycles, passVars, cb, swsel, metrics,
                   gauge, releases>>

\* get_client_id: the app_api_key header if present, else the first
\* X-Forwarded-For entry if present, else the peer address
GetClientId(api_key, forwarded_for, host) ==
    IF api_key # "none" THEN api_key
    ELSE IF forwarded_for # "none" THEN forwarded_for
    ELSE host

InWindow(t) == rltime - t < window_size

\* mutant: nothing is ever dropped from the list
PruneNever(c) == requests[c]

\* is_allowed: the client's timestamps still inside the window
Prune(c) == SelectSeq(requests[c], InWindow)

\* mutant: a request is allowed when the count has reached the ceiling
UnderLimitInclusive(c) == Len(Prune(c)) <= max_requests

\* is_allowed: len(client_requests) < self.max_requests
UnderLimit(c) == Len(Prune(c)) < max_requests

\* mutant: every request is let through
IsAllowedAlways(c) == TRUE

\* is_allowed, its result
IsAllowed(c) == UnderLimit(c)

\* is_allowed, the client's list afterwards: pruned, and the request's
\* timestamp appended if it is allowed
Recorded(c) == IF UnderLimit(c) THEN Append(Prune(c), rltime) ELSE Prune(c)

\* mutant: asking for the remaining budget records a request
RemainingListConsuming(c) == Append(Prune(c), rltime)

\* get_remaining_requests: the client's list afterwards, pruned in place
RemainingList(c) == Prune(c)

\* get_remaining_requests, its result: max(0, max_requests - len(list))
GetRemainingRequests(c) ==
    IF max_requests - Len(Prune(c)) > 0 THEN max_requests - Len(Prune(c)) ELSE 0

\* a call of get_remaining_requests(c)
CallGetRemainingRequests(c) ==
    /\ requests' = [requests EXCEPT ![c] = RemainingList(c)]
    /\ UNCHANGED <<resp, allowed, denied, coreVars>>

\* the 429 response of the middleware to a request
TooManyRequests(request) == [request EXCEPT !.code = 429]

\* rate_limit_middleware around a handler: is_allowed, then either the 429
\* response or call_next(request)
RateLimitMiddleware(c, request, Handler, response) ==
    /\ requests' = [requests EXCEPT ![c] = Recorded(c)]
    /\ IF IsAllowed(c)
       THEN /\ allowed' = [allowed EXCEPT ![c][rltime] = @ + 1]
            /\ UNCHANGED denied
            /\ Handler
            /\ resp' = [response EXCEPT !.client = c]
       ELSE /\ denied' = [denied EXCEPT ![c][rltime] = TRUE]
            /\ UNCHANGED <<allowed, coreVars>>
            /\ resp' = [TooManyRequests(request) EXCEPT !.client = c]

\* mutant: no path is exempt
ExemptPathsNone == {}

\* the paths rate_limit_middleware does not limit
ExemptPaths == {"/health", "/metrics", "/docs", "/openapi.json"}

\* rate_limit_middleware for a request to `path`: an exempt path goes
\* straight to call_next, is_allowed is not called
RateLimitMiddlewareAt(path, c, request, Handler, response) ==
    IF path \in ExemptPaths
    THEN Served(Handler, [response EXCEPT !.client = c])
    ELSE RateLimitMiddleware(c, request, Handler, response)

\* GET on one of the service paths (health check, metrics, documentation):
\* answered 200, nothing below the HTTP layer changes
HttpService(path, api_key, host) ==
    RateLimitMiddlewareAt(path, GetClientId(api_key, "none", host),
                          [NoResponse EXCEPT !.kind = path, !.api_key = api_key],
                          UNCHANGED coreVars,
                          [NoResponse EXCEPT !.kind = path, !.api_key = api_key,
                                             !.code = 200])

\* POST /join through the middleware
HttpJoin(api_key, host, qid, mode) ==
    RateLimitMiddleware(GetClientId(api_key, "none", host),
                        [NoResponse EXCEPT !.kind = "join", !.api_key = api_key,
                                           !.qid = qid, !.mode = mode],
                        JoinQueue(api_key, qid, mode),
                        JoinResponse(api_key, qid, mode))

\* GET /queue_status through the middleware
HttpStatus(api_key, host, token) ==
    RateLimitMiddleware(GetClientId(api_key, "none", host),
                        [NoResponse EXCEPT !.kind = "status", !.token = token],
                        QueueStatus(token),
                        QueueStatusResponse(token))

ServeJoin ==
    \E api_key \in ApiKeys, qid \in QueueIds, mode \in Modes :
        Served(JoinQueue(api_key, qid, mode), JoinResponse(api_key, qid, mode))

ServeStatus ==
    \E token \in Tokens : Served(QueueStatus(token), QueueStatusResponse(token))

ServeCancel ==
    \E token \in Tokens : Served(CancelQueue(token), CancelResponse(token))

\* ---------------------------------------------------- the worker (QueueWorker)
\* QueueWorker.start: self.running = True, then the loop
Start(w) ==
    /\ pc[w] = "init"
    /\ running' = [running EXCEPT ![w] = TRUE]
    /\ pc' = [pc EXCEPT ![w] = "loop"]
    /\ UNCHANGED <<now, worldVars, dispatched, users, logs, cycles, passVars, cb, swsel,
                   metrics, gauge, releases>>

\* mutant: the loop is `while True`
ProcessQueuesWhileTrue(w) ==
    /\ pc[w] = "loop"
    /\ \E qs \in AnyOrder(ActiveQueues) : qlist' = [qlist EXCEPT ![w] = qs]
    /\ pc' = [pc EXCEPT ![w] = "queues"]
    /\ UNCHANGED <<now, worldVars, dispatched, users, logs, running, cycles, curq, sel, idx,
                   cb, swsel, metrics, gauge, releases>>

\* process_queues: a new pass loads the active, non-deleted queues
ProcessQueues(w) ==
    /\ pc[w] = "loop"
    /\ running[w]
    /\ \E qs \in AnyOrder(ActiveQueues) : qlist' = [qlist EXCEPT ![w] = qs]
    /\ pc' = [pc EXCEPT ![w] = "queues"]
    /\ UNCHANGED <<now, worldVars, dispatched, users, logs, running, cycles, curq, sel, idx,
                   cb, swsel, metrics, gauge, releases>>

\* process_queue, up to the for loop: the waiting_users query; an empty result
\* returns at once, otherwise the count query sets the QUEUE_SIZE gauge
ProcessQueue(w) ==
    /\ pc[w] = "queues"
    /\ qlist[w] # <<>>
    /\ LET q == Head(qlist[w]) IN
       \E s \in WaitingUsersQuery(q) :
          /\ curq' = [curq EXCEPT ![w] = q]
          /\ sel' = [sel EXCEPT ![w] = s]
          /\ idx' = [idx EXCEPT ![w] = 1]
          /\ cb' = [cb EXCEPT ![w] = NoCb]
          /\ IF s = <<>>
             THEN /\ qlist' = [qlist EXCEPT ![w] = Tail(qlist[w])]
                  /\ UNCHANGED <<pc, gauge>>
             ELSE /\ gauge' = [gauge EXCEPT ![w][q] = Cardinality(WaitingIn(q))]
                  /\ pc' = [pc EXCEPT ![w] = "release"]
                  /\ UNCHANGED qlist
    /\ UNCHANGED <<now, worldVars, dispatched, users, logs, running, cycles, swsel,
                   metrics, releases>>

\* release_user up to its commit: the next row of waiting_users is written
\* ready with its wait_time, whatever the store holds for it by now; then
\* send_callback is called for it (it runs up to its first POST)
ReleaseUser(w) ==
    /\ pc[w] = "release"
    /\ idx[w] <= Len(sel[w])
    /\ LET u == sel[w][idx[w]] IN
          /\ users' = [users EXCEPT ![u] = ReleaseWrite(users[u])]
          /\ releases' = [releases EXCEPT ![u] = @ + 1]
          /\ dispatched' = [dispatched EXCEPT ![u] = @ + 1]
          /\ cb' = [cb EXCEPT ![w] = [NoCb EXCEPT !.user = u]]
    /\ pc' = [pc EXCEPT ![w] = "callback"]
    /\ UNCHANGED <<now, worldVars, logs, running, cycles, passVars, swsel,
                   metrics, gauge>>

\* the endpoint: the first POST it answers 2xx, 0 if it answers none
FirstOk(post) ==
    IF \A i \in DOMAIN post : ~post[i] THEN 0
    ELSE CHOOSE i \in DOMAIN post : post[i] /\ \A j \in DOMAIN post : j < i => ~post[j]

\* mutant: the loop goes on after a 2xx answer (the break is missing)
RECURSIVE CallbackLoopNoBreak(_, _, _)
CallbackLoopNoBreak(post, attempt, st) ==
    IF attempt >= retries THEN st
    ELSE CallbackLoopNoBreak(post, attempt + 1,
             IF post[attempt + 1]
             THEN [st EXCEPT !.attempts = @ + 1, !.success = TRUE,
                             !.succ_inc = @ + 1]
             ELSE [st EXCEPT !.attempts = @ + 1,
                             !.delays = IF attempt < retries - 1
                                        THEN Append(@, Backoff(attempt))
                                        ELSE @])

\* send_callback, the retry loop, run on the answers post[1..retries] the
\* endpoint gives to successive POSTs (TRUE: 2xx, FALSE: raises); st holds the
\* number of POSTs made, the backoff delays slept and the success flag
RECURSIVE CallbackLoop(_, _, _)
CallbackLoop(post, attempt, st) ==
    IF attempt >= retries THEN st
    ELSE IF post[attempt + 1]
         THEN [st EXCEPT !.attempts = @ + 1, !.success = TRUE,
                         !.succ_inc = @ + 1]
         ELSE CallbackLoop(post, attempt + 1,
                  [st EXCEPT !.attempts = @ + 1,
                             !.delays = IF attempt < retries - 1
                                        THEN Append(@, Backoff(attempt))
                                        ELSE @])

\* send_callback after the loop: if not success, CALLBACK_FAILURE.inc() and
\* one Log row
CallbackOutcome(post, u) ==
    LET st == CallbackLoop(post, 0, [NoCb EXCEPT !.user = u,
                                                 !.first_ok = FirstOk(post)]) IN
    IF st.success
    THEN [st EXCEPT !.done = TRUE]
    ELSE [st EXCEPT !.done = TRUE, !.fail_inc = @ + 1, !.logged = @ + 1]

\* send_callback for the row just released, then release_user returns,
\* USERS_RELEASED.inc(), and the for loop of process_queue takes the next row
\* or process_queue returns
SendCallback(w) ==
    /\ pc[w] = "callback"
    /\ \E post \in [1..retries -> BOOLEAN] :
          LET r == CallbackOutcome(post, cb[w].user) IN
          /\ cb' = [cb EXCEPT ![w] = r]
          /\ logs' = [logs EXCEPT ![r.user] = @ + r.logged]
          /\ metrics' = [metrics EXCEPT
                            ![w].callback_success = @ + r.succ_inc,
                            ![w].callback_failure = @ + r.fail_inc,
                            ![w].released = @ + 1]
    /\ idx' = [idx EXCEPT ![w] = @ + 1]
    /\ IF idx[w] + 1 <= Len(sel[w])
       THEN /\ pc' = [pc EXCEPT ![w] = "release"]
            /\ UNCHANGED qlist
       ELSE /\ pc' = [pc EXCEPT ![w] = "queues"]
            /\ qlist' = [qlist EXCEPT ![w] = Tail(qlist[w])]
    /\ UNCHANGED <<now, worldVars, dispatched, users, running, cycles, curq, sel, swsel,
                   gauge, releases>>

\* cleanup_expired_tokens, the expired_users query (process_queues is over)
CleanupQuery(w) ==
    /\ pc[w] = "queues"
    /\ qlist[w] = <<>>
    /\ swsel' = [swsel EXCEPT ![w] = ExpiredUsersQuery]
    /\ pc' = [pc EXCEPT ![w] = "cleanup"]
    /\ curq' = [curq EXCEPT ![w] = "q0"]
    /\ sel' = [sel EXCEPT ![w] = <<>>]
    /\ idx' = [idx EXCEPT ![w] = 1]
    /\ cb' = [cb EXCEPT ![w] = NoCb]
    /\ UNCHANGED <<now, worldVars, dispatched, users, logs, running, cycles, qlist, metrics,
                   gauge, releases>>

\* cleanup_expired_tokens, the commit: every selected row is written expired,
\* USERS_EXPIRED.inc() for each; then asyncio.sleep(60) ends the iteration
CleanupCommit(w) ==
    /\ pc[w] = "cleanup"
    /\ users' = [u \in UserIds |->
                    IF u \in swsel[w] THEN ExpireWrite(users[u]) ELSE users[u]]
    /\ metrics' = [metrics EXCEPT ![w].expired = @ + Cardinality(swsel[w])]
    /\ swsel' = [swsel EXCEPT ![w] = {}]
    /\ cycles' = [cycles EXCEPT ![w] = IF counting THEN @ + 1 ELSE @]
    /\ pc' = [pc EXCEPT ![w] = "loop"]
    /\ UNCHANGED <<now, worldVars, dispatched, logs, running, passVars, cb, gauge, releases>>

Worker(w) ==
    \/ Start(w)
    \/ ProcessQueues(w)
    \/ ProcessQueue(w)
    \/ ReleaseUser(w)
    \/ SendCallback(w)
    \/ CleanupQuery(w)
    \/ CleanupCommit(w)

\* ------------------------------------------- processing errors (start, except)
\* where the worker is when a database call of the pass or of the sweep can
\* raise: the waiting_users query, the commit of release_user, the queries and
\* the commit of send_callback, the query and the commit of the sweep
InDatabaseCall(w) == pc[w] \in {"queues", "release", "callback", "cleanup"}

\* a database call raises: the exception leaves process_queue and
\* process_queues (their finally closes the session, nothing pending is
\* written) or cleanup_expired_tokens, and reaches `except Exception` in
\* start(), which logs it and sleeps
Raise(w) ==
    /\ InDatabaseCall(w)
    /\ pc' = [pc EXCEPT ![w] = "failed"]
    /\ qlist' = [qlist EXCEPT ![w] = <<>>]
    /\ curq' = [curq EXCEPT ![w] = "q0"]
    /\ sel' = [sel EXCEPT ![w] = <<>>]
    /\ idx' = [idx EXCEPT ![w] = 1]
    /\ cb' = [cb EXCEPT ![w] = NoCb]
    /\ swsel' = [swsel EXCEPT ![w] = {}]
    /\ UNCHANGED <<now, worldVars, dispatched, users, logs, running, cycles,
                   metrics, gauge, releases>>

\* mutant: start() returns after the except branch
ResumeAtReturn(w) == "returned"

\* where start() goes on after the except branch: the while test
ResumeAt(w) == "loop"

\* the asyncio.sleep(60) of the except branch is over
Resume(w) ==
    /\ pc[w] = "failed"
    /\ pc' = [pc EXCEPT ![w] = ResumeAt(w)]
    /\ UNCHANGED <<now, worldVars, dispatched, users, logs, running, cycles,
                   passVars, cb, swsel, metrics, gauge, releases>>

\* ------------------------------------------------------- shutdown (lifespan)
\* the worker task is suspended at an await: not yet run, in asyncio.sleep(60),
\* or inside send_callback (a POST or a backoff sleep)
Suspended(w) == pc[w] \in {"init", "loop", "callback"}

\* lifespan after its yield: stop_worker() -> QueueWorker.stop sets
\* running = False and awaits client.aclose(); the worker task runs on meanwhile
StopWorker(w) ==
    /\ lifespan[w] = "serving"
    /\ Suspended(w)
    /\ running' = [running EXCEPT ![w] = FALSE]
    /\ lifespan' = [lifespan EXCEPT ![w] = "stopping"]
    /\ UNCHANGED <<now, cfgVars, rltime, httpVars, idVars, dispatched, users,
                   logs, pc, cycles, passVars, cb, swsel, metrics, gauge, releases>>

\* `while self.running` found false after asyncio.sleep(60): start() returns
LoopExit(w) ==
    /\ pc[w] = "loop"
    /\ ~running[w]
    /\ pc' = [pc EXCEPT ![w] = "returned"]
    /\ UNCHANGED <<now, worldVars, dispatched, users, logs, running, cycles,
                   passVars, cb, swsel, metrics, gauge, releases>>

\* a dispatch cancelled during its k-th POST or the backoff sleep after it
CancelledDispatch(st, k) ==
    [st EXCEPT !.attempts = k,
               !.delays = [i \in 1..(k - 1) |-> Backoff(i - 1)]]

\* lifespan: worker_task.cancel(); CancelledError is raised at the await the
\* task is suspended in (`except Exception` does not catch it) and the task
\* ends; a dispatch under way is abandoned, db.close() has nothing to undo
CancelWorkerTask(w) ==
    /\ lifespan[w] = "stopping"
    /\ Suspended(w) \/ pc[w] = "returned"
    /\ lifespan' = [lifespan EXCEPT ![w] = "closed"]
    /\ pc' = [pc EXCEPT ![w] = IF pc[w] = "returned" THEN "returned" ELSE "cancelled"]
    /\ IF pc[w] = "callback"
       THEN \E k \in 1..retries : cb' = [cb EXCEPT ![w] = CancelledDispatch(@, k)]
       ELSE UNCHANGED cb
    /\ UNCHANGED <<now, cfgVars, rltime, httpVars, idVars, dispatched, users,
                   logs, running, cycles, passVars, swsel, metrics, gauge, releases>>

Shutdown(w) == StopWorker(w) \/ LoopExit(w) \/ CancelWorkerTask(w)

\* ----------------------------------------------------------- specification
\* a join request carrying the key of the application that owns the queue
Join ==
    /\ \E qid \in Queues : JoinReal(apps[queues[qid].application_id].api_key, qid)
    /\ UNCHANGED httpVars

\* a cancel request for a token that is found
Cancel ==
    /\ \E token \in Tokens : CancelCommit(token)
    /\ UNCHANGED httpVars

\* the engine: the clock, admissions and cancellations served by request
\* threads, and the worker loop of every deployed process
Next ==
    \/ Tick
    \/ Join
    \/ Cancel
    \/ \E w \in Workers : Worker(w)

Spec == Init /\ [][Next]_vars

\* two worker processes, no cancellations
NextHA ==
    \/ Tick
    \/ Join
    \/ \E w \in Workers : Worker(w)

SpecHA == InitHA /\ [][NextHA]_vars

\* a backlog drained by one worker: no arrivals, no cancellations; the worker
\* is followed for MaxCycles iterations of its loop
NextBacklog ==
    \/ Tick
    \/ cycles["w1"] < MaxCycles /\ Worker("w1")

SpecBacklog == InitBacklog /\ [][NextBacklog]_vars

\* the tenant whose application and queues are re-provisioned while requests
\* are served; the other tenant stays as provisioned
Managed == {"A"}
ManagedQueues == {q \in Queues : QueueOwner[q] \in Managed}

\* the API: provisioning changes and participant requests, every kind of
\* input, at one reading of the clock and with the worker not yet started
NextApi ==
    \/ \E a \in Managed, v \in BOOLEAN : UpdateApplication(a, v)
    \/ \E a \in Managed : DeleteApplication(a) /\ UNCHANGED httpVars
    \/ \E a \in Managed : AdminSoftDelete(a)
    \/ \E q \in ManagedQueues, v \in BOOLEAN : UpdateQueue(q, v)
    \/ \E q \in ManagedQueues : DeleteQueue(q)
    \/ ServeJoin
    \/ ServeStatus
    \/ ServeCancel

\* the queues provisioned with quota 1
InitApi ==
    /\ Init
    /\ \A q \in Queues : queues[q].max_users_per_minute = 1

SpecApi == InitApi /\ [][NextApi]_vars

\* the configured ceiling is between 1 and MaxCeiling, the queues have quota 1
InitRate ==
    /\ InitCommon
    /\ pc = [w \in Workers |-> IF w = "w1" THEN "init" ELSE "absent"]
    /\ queues \in {qs \in QueueTables({}) :
                      \A q \in Queues : qs[q].max_users_per_minute = 1}
    /\ users = InitUsers
    /\ uuids = 0
    /\ max_requests \in 1..MaxCeiling
    /\ now = 0
    /\ counting = FALSE

\* the keys presented by the clients followed through the rate limiter
RateKeys == {"bad", "keyA"}

\* requests arriving through the rate limiter as its clock advances
NextRate ==
    \/ TickRate
    \/ \E api_key \in RateKeys, host \in Hosts, qid \in QueueIds, mode \in Modes :
          HttpJoin(api_key, host, qid, mode)
    \/ \E api_key \in RateKeys, host \in Hosts, token \in Tokens :
          HttpStatus(api_key, host, token)

SpecRate == InitRate /\ [][NextRate]_vars

\* a simulation-mode join carrying the key of the application that owns the
\* queue
Simulate ==
    /\ \E qid \in Queues :
          JoinSimulation(apps[queues[qid].application_id].api_key, qid)
    /\ UNCHANGED httpVars

\* the engine with simulated admissions among the real ones, no cancellations
NextSim ==
    \/ Tick
    \/ Join
    \/ Simulate
    \/ \E w \in Workers : Worker(w)

SpecSim == Init /\ [][NextSim]_vars

\* a real join whose uuid4 can produce any token
ServeJoinWithToken ==
    \E api_key \in RateKeys, qid \in Queues, token \in Tokens :
        Served(JoinWithToken(api_key, qid, token),
               JoinWithTokenResponse(api_key, qid, token))

\* the request threads alone: admissions whose tokens may repeat and
\* cancellations (the worker inserts no participant and writes no token)
NextUuid ==
    \/ Tick
    \/ ServeJoinWithToken
    \/ ServeCancel

SpecUuid == InitApi /\ [][NextUuid]_vars

\* a backlog drained by one worker while clients look tokens up
NextLookup ==
    \/ NextBacklog
    \/ ServeStatus

SpecLookup == InitBacklog /\ [][NextLookup]_vars

\* the engine while the queues of one tenant are deactivated, reactivated
\* and soft-deleted through the API; no cancellations
NextProv ==
    \/ Tick
    \/ Join
    \/ \E q \in ManagedQueues, v \in BOOLEAN :
          UpdateQueue(q, v) /\ queues' # queues
    \/ \E q \in ManagedQueues : DeleteQueue(q)
    \/ Worker("w1")

SpecProv == InitApi /\ [][NextProv]_vars

\* a DELETE /applications/{id} request
ServeDeleteApplication ==
    \E a \in Managed :
        Served(DeleteApplication(a) \/ DeleteApplicationNotFound(a),
               DeleteApplicationResponse(a))

\* applications deleted through the API or through the admin site, and the
\* admissions made with their credentials
NextAdmin ==
    \/ ServeDeleteApplication
    \/ \E a \in Managed : AdminSoftDelete(a)
    \/ ServeJoin
    \/ ServeStatus

SpecAdmin == InitApi /\ [][NextAdmin]_vars

\* the quotas a request body can carry
QuotaInputs == (0 - MaxNegativeQuota)..MaxQuota

\* the queues reconfigured through the API while participants join
NextQuota ==
    \/ \E q \in Queues, n \in QuotaInputs :
          UpdateQueueQuota(q, n) /\ queues' # queues
    \/ \E q \in ManagedQueues, v \in BOOLEAN :
          UpdateQueue(q, v) /\ queues' # queues
    \/ \E q \in ManagedQueues : DeleteQueue(q)
    \/ Join

SpecQuota == InitApi /\ [][NextQuota]_vars

\* the engine running on without errors while queues are deactivated and
\* soft-deleted: the clock advances, every await of the worker returns;
\* admissions come early enough for their expiry to lie within the clock's
\* range
NextLive ==
    \/ Tick
    \/ now + AdmissionWindow < MaxTime /\ Join
    \/ \E q \in ManagedQueues, v \in BOOLEAN :
          UpdateQueue(q, v) /\ queues' # queues
    \/ \E q \in ManagedQueues : DeleteQueue(q)
    \/ Worker("w1")

SpecLive ==
    /\ InitApi
    /\ [][NextLive]_vars
    /\ WF_vars(Tick)
    /\ WF_vars(Worker("w1"))

\* requests through the rate limiter and calls of get_remaining_requests
NextRemaining ==
    \/ NextRate
    \/ \E c \in RateKeys : CallGetRemainingRequests(c)

SpecRemaining == InitRate /\ [][NextRemaining]_vars

\* the service paths the clients of the model ask for
ServicePaths == {"/health", "/metrics", "/docs", "/openapi.json"}

\* requests through the rate limiter, to limited and to exempt paths
NextExempt ==
    \/ TickRate
    \/ \E api_key \in RateKeys, host \in Hosts, qid \in Queues :
          HttpJoin(api_key, host, qid, "real")
    \/ \E path \in ServicePaths, api_key \in RateKeys, host \in Hosts :
          HttpService(path, api_key, host)

SpecExempt == InitRate /\ [][NextExempt]_vars

\* a backlog drained by one worker whose database calls can raise; the
\* sleeps of start() end and the loop goes on
NextFault ==
    \/ Tick
    \/ cycles["w1"] < MaxCycles /\ Worker("w1")
    \/ cycles["w1"] < MaxCycles /\ Raise("w1")
    \/ Resume("w1")

SpecFault ==
    /\ InitBacklog
    /\ [][NextFault]_vars
    /\ WF_vars(Resume("w1"))
    /\ WF_vars(cycles["w1"] < MaxCycles /\ ProcessQueues("w1"))

\* the engine of one process through its shutdown
NextLife ==
    \/ Next
    \/ \E w \in Workers : Shutdown(w)

SpecLife == Init /\ [][NextLife]_vars

\* ================================================================== claims
created_at(u) == users[u].created_at

\* process_queue of worker w is under way or has just returned for curq[w]
InPass(w) == curq[w] \in Queues /\ pc[w] \in {"release", "callback", "queues"}

\* the number of release_user commits made so far by that process_queue
ReleasedInPass(w) == IF pc[w] = "callback" THEN idx[w] ELSE idx[w] - 1

\* process_queue of worker w has returned after releasing its selection
PassDone(w) == InPass(w) /\ pc[w] = "queues" /\ sel[w] # <<>>

\* C1: in one execution of process_queue the number of participants released
\* (written ready) never exceeds the queue's max_users_per_minute, however many
\* participants wait in the queue.
C1_QuotaPerCycle ==
    \A w \in Workers :
        InPass(w) => ReleasedInPass(w) <= queues[curq[w]].max_users_per_minute

\* C1 witness: a pass has released a full quota while the queue held more
\* waiting participants than the quota.
C1_Witness ==
    \E w \in Workers :
        /\ PassDone(w)
        /\ ReleasedInPass(w) = queues[curq[w]].max_users_per_minute
        /\ gauge[w][curq[w]] > queues[curq[w]].max_users_per_minute

\* C2: within one pass over one queue the participants are released in
\* ascending created_at order, and no participant waiting in that queue was
\* created strictly earlier than a participant the pass has released.
C2_FifoWithinCycle ==
    \A w \in Workers :
        InPass(w) =>
            /\ \A i, j \in 1..Len(sel[w]) :
                  i < j => created_at(sel[w][i]) <= created_at(sel[w][j])
            /\ \A i \in 1..ReleasedInPass(w) : \A u \in WaitingIn(curq[w]) :
                  ~(created_at(u) < created_at(sel[w][i]))

\* C2 witness: a pass has returned after releasing two participants created at
\* different times.
C2_Witness ==
    \E w \in Workers :
        /\ PassDone(w)
        /\ ReleasedInPass(w) = 2
        /\ created_at(sel[w][1]) < created_at(sel[w][2])

\* C3: once a participant's status is ready, expired or rejected, no step
\* (release, sweep, cancellation, admission) changes that status.
C3_TerminalNeverChanges ==
    [][\A u \in UserIds :
          users[u].status \in Terminal => users'[u].status = users[u].status]_vars

\* the token belongs to a participant whose status is ready or expired
TerminalToken(token) ==
    \E u \in UserIds : /\ users[u].token = token
                       /\ users[u].status \in {"ready", "expired"}

\* C4: a cancel request for the token of a participant that is already ready
\* or expired is answered 404 and writes nothing: cancel_queue never commits
\* for such a token.
C4_CancelTerminalFails ==
    [][\A token \in 1..MaxUsers : TerminalToken(token) => ~CancelCommit(token)]_vars

\* C5: a participant is released at most once, also when the passes of two
\* worker processes overlap.
C5_ReleasedAtMostOnce == \A u \in 1..MaxUsers : releases[u] <= 1

\* C6: when a release and an expiration race on one participant, the status
\* committed first stays: a ready participant is never written expired and an
\* expired participant is never written ready.
C6_FirstCommitWins ==
    [][\A u \in UserIds :
          /\ ~(users[u].status = "ready" /\ users'[u].status = "expired")
          /\ ~(users[u].status = "expired" /\ users'[u].status = "ready")]_vars

\* the commit of cleanup_expired_tokens by worker w
SweepCommits(w) == pc[w] = "cleanup" /\ pc'[w] = "loop"

\* C7: after a sweep every participant its query found waiting, non-deleted
\* and past its expiry is expired, and the sweep changes no participant that
\* is not waiting or not past its expiry.
C7_SweepExpiresExactlyTheDue ==
    [][\A w \in Workers : SweepCommits(w) =>
          /\ \A u \in swsel[w] : users'[u].status = "expired"
          /\ \A u \in UserIds :
                users'[u] # users[u] =>
                   /\ users[u].status = "waiting"
                   /\ users[u].expires_at < now]_vars

InQueue(q) == {u \in UserIds : users[u].queue_id = q}
ReadyIn(q) == {u \in InQueue(q) : users[u].status = "ready"}
NoneExpired == \A u \in UserIds : users[u].status # "expired"

\* C8: a queue with quota q and N waiting participants created at distinct
\* times, no arrivals, cancellations or expirations: after k cycles of the
\* worker exactly min(N, k*q) participants are ready, and they are the oldest.
C8_BacklogDrainsOldestFirst ==
    (pc["w1"] \in {"init", "loop"} /\ NoneExpired) =>
        \A q \in Queues :
            /\ Cardinality(ReadyIn(q)) =
                  Min(Cardinality(InQueue(q)),
                      cycles["w1"] * queues[q].max_users_per_minute)
            /\ \A r \in ReadyIn(q) : \A u \in InQueue(q) \ ReadyIn(q) :
                  created_at(r) < created_at(u)

\* C8 witness: quota 1, two participants, nothing expired: after the second
\* cycle both are ready.
C8_Witness ==
    /\ pc["w1"] = "loop" /\ NoneExpired /\ cycles["w1"] = 2
    /\ \E q \in Queues : /\ queues[q].max_users_per_minute = 1
                         /\ Cardinality(InQueue(q)) = 2
                         /\ Cardinality(ReadyIn(q)) = 2

\* send_callback of worker w returns in this step
DispatchReturns(w) == pc[w] = "callback" /\ pc'[w] # "callback"

\* C9: when the endpoint answers no POST with 2xx, send_callback makes exactly
\* 3 attempts with backoff delays 1 then 2 between them, then adds exactly one
\* log row for the participant and increments CALLBACK_FAILURE once (and not
\* CALLBACK_SUCCESS), is over, and leaves the participant table as it is.
C9_AllAttemptsFail ==
    [][\A w \in Workers :
          (DispatchReturns(w) /\ cb'[w].first_ok = 0) =>
             /\ cb'[w].attempts = 3
             /\ cb'[w].delays = <<1, 2>>
             /\ cb'[w].done
             /\ logs' = [logs EXCEPT ![cb[w].user] = @ + 1]
             /\ metrics'[w].callback_failure = metrics[w].callback_failure + 1
             /\ metrics'[w].callback_success = metrics[w].callback_success
             /\ users' = users]_vars

\* C9 witness: a dispatch has returned after three failed attempts, its
\* participant ready and one log row written for it.
C9_Witness ==
    \E w \in Workers :
        /\ cb[w].done /\ cb[w].first_ok = 0 /\ cb[w].attempts = 3
        /\ users[cb[w].user].status = "ready"
        /\ logs[cb[w].user] = 1
        /\ metrics[w].callback_failure = 1

\* C10: when the n-th POST is the first answered 2xx (1 <= n <= 3),
\* send_callback makes exactly n attempts, increments CALLBACK_SUCCESS once,
\* leaves CALLBACK_FAILURE alone and writes no log row.
C10_SuccessStopsRetrying ==
    [][\A w \in Workers :
          (DispatchReturns(w) /\ cb'[w].first_ok \in 1..3) =>
             /\ cb'[w].attempts = cb'[w].first_ok
             /\ cb'[w].success
             /\ metrics'[w].callback_success = metrics[w].callback_success + 1
             /\ metrics'[w].callback_failure = metrics[w].callback_failure
             /\ logs' = logs]_vars

\* C10 witness: a dispatch has returned after succeeding at its second attempt.
C10_Witness ==
    \E w \in Workers :
        /\ cb[w].done /\ cb[w].first_ok = 2 /\ cb[w].attempts = 2
        /\ cb[w].delays = <<1>>
        /\ metrics[w].callback_success = 1 /\ metrics[w].callback_failure = 0

\* send_callback of worker w begins in this step
DispatchStarts(w) == pc[w] # "callback" /\ pc'[w] = "callback"

\* send_callback of worker w ends in this step: it returns after a success or
\* after all retries failed, or its task is cancelled by the shutdown
DispatchEnds(w) == pc[w] = "callback" /\ pc'[w] # "callback"

\* C11: when a dispatch starts its participant is already committed ready
\* (with its wait_time), and the step that ends a dispatch (success, failure
\* after all retries, cancellation by shutdown) leaves every participant as
\* it is: nobody is reverted from ready or put back to waiting.
C11_ReadyCommittedBeforeDispatch ==
    [][\A w \in Workers :
          /\ DispatchStarts(w) =>
                /\ users'[cb'[w].user].status = "ready"
                /\ users'[cb'[w].user].wait_time # <<>>
          /\ DispatchEnds(w) => users' = users]_vars

\* C11 witness: a dispatch was cancelled by the shutdown after its second
\* POST and its participant is ready.
C11_Witness ==
    \E w \in Workers :
        /\ pc[w] = "cancelled" /\ cb[w].user # 0 /\ ~cb[w].done
        /\ cb[w].attempts = 2
        /\ users[cb[w].user].status = "ready"

\* C12: send_callback is called exactly once for every participant the release
\* scheduler has released, and never for a participant it has not released.
C12_DispatchedExactlyOnce ==
    \A u \in 1..MaxUsers :
        dispatched[u] = IF releases[u] >= 1 THEN 1 ELSE 0

\* the client has just been answered a join request in this step
JoinAnswered == resp' # resp /\ resp'.kind = "join"

\* C13: after a successful real-mode admission, a status lookup with the
\* returned token made right after it (no release, sweep or cancel in between)
\* answers 200 with that participant: same token, same queue, status waiting
\* and no wait_time.
C13_JoinThenLookup ==
    [][(/\ resp.kind = "join" /\ resp.code = 200 /\ resp.mode = "real"
        /\ resp'.kind = "status" /\ resp'.token = resp.token) =>
          /\ resp'.code = 200
          /\ resp'.qid = resp.qid
          /\ resp'.status = "waiting"
          /\ resp'.wait_time = <<>>]_vars

\* C13 witness: a lookup has answered the second participant admitted, still
\* waiting and without wait_time.
C13_Witness ==
    /\ resp.kind = "status" /\ resp.code = 200
    /\ resp.status = "waiting" /\ resp.wait_time = <<>>
    /\ Len(users) = 2 /\ users[2].token = resp.token

\* the key is the api_key of an active, non-deleted application
ActiveCredential(api_key) ==
    \E a \in Apps : /\ apps[a].api_key = api_key
                     /\ apps[a].is_active
                     /\ ~apps[a].is_deleted

\* C14: a join is answered 200 only when its app_api_key is the key of an
\* active, non-deleted application; with a missing or unknown key, or the key
\* of an inactive or soft-deleted application, it is answered 401 and no
\* participant is added.
C14_CredentialRequired ==
    [][JoinAnswered =>
          /\ resp'.code = 200 => ActiveCredential(resp'.api_key)
          /\ ~ActiveCredential(resp'.api_key) =>
                (resp'.code = 401 /\ users' = users)]_vars

\* the application a key belongs to
AppOfKey(api_key) == {a \in Apps : apps[a].api_key = api_key}

\* the key is the api_key of an application that is not soft-deleted
LiveCredential(api_key) == \E a \in AppOfKey(api_key) : ~apps[a].is_deleted

\* C15: a join that presents the key of one application with the id of a queue
\* owned by another application is answered 404 and adds no participant, and
\* every participant added belongs to a queue owned by the application whose
\* key the join presented.
C15_TenantIsolation ==
    [][JoinAnswered =>
          /\ (/\ LiveCredential(resp'.api_key)
              /\ resp'.qid \in Queues
              /\ queues[resp'.qid].application_id \notin AppOfKey(resp'.api_key)) =>
                (resp'.code = 404 /\ users' = users)
          /\ users' # users =>
                /\ users' = Append(users, users'[Len(users')])
                /\ users'[Len(users')].queue_id = resp'.qid
                /\ queues[resp'.qid].application_id \in AppOfKey(resp'.api_key)]_vars

\* C15 witness: application A's key with application B's queue was answered
\* 404 while A has a participant in its own queue and B's queue has none.
C15_Witness ==
    /\ resp.kind = "join" /\ resp.api_key = "keyA" /\ resp.qid = "q2"
    /\ resp.code = 404
    /\ Len(users) = 1 /\ users[1].queue_id = "q1"

\* C16: a join for a queue that is inactive or soft-deleted, presented with the
\* key of the active application that owns the queue, is answered 404 and adds
\* no participant.
C16_QueueMustBeInService ==
    [][JoinAnswered =>
          ((/\ ActiveCredential(resp'.api_key)
            /\ resp'.qid \in Queues
            /\ queues[resp'.qid].application_id \in AppOfKey(resp'.api_key)
            /\ (~queues[resp'.qid].is_active \/ queues[resp'.qid].is_deleted)) =>
                (resp'.code = 404 /\ users' = users))]_vars

\* C17: a simulation-mode admission passes the same credential and queue
\* checks as a real one, answers a ready participant and leaves the
\* participant table as it is; its token is never the token of a stored
\* participant, a lookup for it is answered 404, no release pass selects it,
\* and it leaves the rows each queue's next release pass selects unchanged.
C17_SimulationLeavesNoTrace ==
    /\ [](\A t \in simulated :
             /\ QueueStatusCode(t) = 404
             /\ \A u \in UserIds : users[u].token # t)
    /\ [][simulated' # simulated =>
             /\ \E api_key \in ApiKeys, qid \in QueueIds :
                   /\ JoinSimulation(api_key, qid)
                   /\ JoinResponse(api_key, qid, "real").code = 200
                   /\ JoinResponse(api_key, qid, "simulation").status = "ready"
             /\ users' = users
             /\ \A q \in Queues : WaitingUsersQuery(q)' = WaitingUsersQuery(q)]_vars

\* C17 witness: after a simulated admission a release pass has released a
\* full quota of two participants, one admitted before it and one after it.
C17_Witness ==
    \E tok \in simulated, w \in Workers :
        /\ PassDone(w)
        /\ queues[curq[w]].max_users_per_minute = 2
        /\ ReleasedInPass(w) = 2
        /\ users[sel[w][1]].token < tok
        /\ users[sel[w][2]].token > tok
        /\ users[sel[w][2]].status = "ready"

\* the number of requests of client c allowed within the trailing window
RECURSIVE AllowedSince(_, _)
AllowedSince(c, t) ==
    IF t > rltime THEN 0
    ELSE (IF InWindow(t) THEN allowed[c][t] ELSE 0) + AllowedSince(c, t + 1)

InWindowCount(c) == AllowedSince(c, 0)

\* a request of client c passes through the rate limiter in this step
RequestFrom(c) ==
    /\ rltime' = rltime
    /\ resp'.client = c
    /\ resp' # resp \/ requests' # requests \/ allowed' # allowed \/ denied' # denied

\* C18: at every instant and for every client id, the requests the rate
\* limiter has allowed within the trailing window are at most max_requests;
\* a request arriving when that count equals max_requests is answered 429 and
\* is not recorded.
C18_CeilingPerWindow ==
    /\ [](\A c \in ClientIds : InWindowCount(c) <= max_requests)
    /\ [][\A c \in ClientIds :
             (RequestFrom(c) /\ InWindowCount(c) = max_requests) =>
                /\ resp'.code = 429
                /\ allowed' = allowed
                /\ \A i \in 1..Len(requests'[c]) :
                      \E j \in 1..Len(requests[c]) :
                         requests'[c][i] = requests[c][j]
                /\ Len(requests'[c]) <= Len(requests[c])]_vars

\* C18 witness: with ceiling 2, a client allowed once at each of two
\* successive clock readings has just been answered 429.
C18_Witness ==
    \E c \in ClientIds :
        /\ max_requests = 2 /\ rltime >= 1
        /\ allowed[c][rltime - 1] = 1 /\ allowed[c][rltime] = 1
        /\ resp.client = c /\ resp.code = 429 /\ denied[c][rltime]

\* C19: a join presented by a client id whose ceiling is exhausted within the
\* window is answered 429 by the middleware whatever its key: join_queue does
\* not run (no 401, 404 or 200), no participant is added and nothing below the
\* HTTP layer changes.
C19_ThrottledBeforeAdmission ==
    [][\A c \in ClientIds :
          (/\ RequestFrom(c) /\ resp'.kind = "join"
           /\ InWindowCount(c) >= max_requests) =>
             /\ resp'.code = 429
             /\ users' = users
             /\ UNCHANGED coreVars]_vars

\* C19 witness: a real join with the key of application A for its own queue
\* was answered 429 and the queue has no participant.
C19_Witness ==
    /\ resp.kind = "join" /\ resp.api_key = "keyA" /\ resp.qid = "q1"
    /\ resp.mode = "real" /\ resp.code = 429
    /\ denied["keyA"][rltime]
    /\ users = <<>>

\* C20: a request of a client id is allowed whenever fewer than max_requests
\* of its allowed requests lie within the trailing window; so after the
\* ceiling was exhausted, the first request arriving once the oldest allowed
\* request is a window old is allowed, however many were rejected meanwhile.
C20_LockoutEnds ==
    [][\A c \in ClientIds :
          (RequestFrom(c) /\ InWindowCount(c) < max_requests) =>
             /\ resp'.code # 429
             /\ allowed'[c][rltime] = allowed[c][rltime] + 1]_vars

\* C20 witness: a client exhausted its ceiling at reading 0, was rejected at
\* reading 1 and has been allowed again at reading 2, one window later.
C20_Witness ==
    \E c \in ClientIds :
        /\ rltime = window_size
        /\ allowed[c][0] = max_requests
        /\ denied[c][1]
        /\ allowed[c][rltime] = 1
        /\ resp.client = c /\ resp.code \notin {0, 429}

\* the processing of a queue by worker w raises in this step while other
\* queues loaded in the same pass are still to be processed
QueueFails(w) ==
    /\ pc'[w] = "failed"
    /\ pc[w] \in {"queues", "release", "callback"}
    /\ qlist[w] # <<>>
    /\ Tail(qlist[w]) # <<>>

\* C21: when the processing of one queue raises during a release pass, the
\* pass goes on with the other queues it loaded: they are still processed in
\* that cycle.
C21_FailureIsolatedPerQueue ==
    [][\A w \in Workers :
          QueueFails(w) => (pc'[w] = "queues" /\ qlist'[w] = Tail(qlist[w]))]_vars

\* C22: after an exception raised in a release pass or in an expiration sweep
\* (the worker not stopped), a further cycle is eventually started.
C22_LoopSurvivesErrors ==
    (pc["w1"] = "failed" /\ running["w1"]) ~> (pc["w1"] = "queues")

\* C22 witness: an exception has been caught by start() while a participant
\* is still waiting.
C22_Witness ==
    /\ pc["w1"] = "failed" /\ running["w1"]
    /\ \E u \in UserIds : users[u].status = "waiting"

\* participant u was cancelled before any release of it was committed
CancelledUnreleased(u) == users[u].is_deleted /\ releases[u] = 0

\* C23: a participant cancelled while waiting stays rejected and soft-deleted,
\* every later status lookup of its token is answered 404, and no release
\* pass, not even one that selected it before the cancellation committed,
\* sets it to ready or dispatches a callback for it.
C23_CancelledNeverReleased ==
    [][\A u \in UserIds :
          CancelledUnreleased(u) =>
              /\ users'[u].status = "rejected"
              /\ users'[u].is_deleted
              /\ QueueStatusCode(users[u].token)' = 404
              /\ releases'[u] = 0
              /\ dispatched'[u] = dispatched[u]]_vars

\* in this step a real join is served whose generated token is already stored
CollidingJoin ==
    \E api_key \in RateKeys, qid \in Queues, token \in StoredTokens :
        /\ JoinStatusCode(api_key, qid) = 200
        /\ Served(JoinWithToken(api_key, qid, token),
                  JoinWithTokenResponse(api_key, qid, token))

\* C24: no two stored participants, soft-deleted ones included, have the same
\* token; a real join whose generated token is already stored is answered as
\* a failure (500) and leaves every stored participant as it is.
C24_TokensUnique ==
    /\ [](\A u, v \in UserIds : u # v => users[u].token # users[v].token)
    /\ [][CollidingJoin => (resp'.code = 500 /\ users' = users)]_vars

\* C24 witness: a join has been answered 500 while the only stored
\* participant, the holder of the token, is soft-deleted.
C24_Witness ==
    /\ resp.kind = "join" /\ resp.code = 500
    /\ Len(users) = 1 /\ users[1].is_deleted

\* a status lookup is answered in this step
LookupAnswered == ServeStatus /\ resp'.kind = "status"

\* C25: a status lookup with the token of a stored participant that was not
\* cancelled is answered 200 with the participant's stored status (waiting,
\* ready or expired) and its wait_time (set once it is released); a lookup
\* with a token never issued is answered 404; a lookup writes nothing.
C25_LookupReturnsStoredState ==
    [][LookupAnswered =>
          /\ \A u \in UserIds :
                (users[u].token = resp'.token /\ ~users[u].is_deleted) =>
                    /\ resp'.code = 200
                    /\ resp'.status = users[u].status
                    /\ resp'.status \in {"waiting", "ready", "expired"}
                    /\ resp'.wait_time = users[u].wait_time
                    /\ users[u].status = "ready" => resp'.wait_time # <<>>
          /\ resp'.token \notin StoredTokens => resp'.code = 404
          /\ UNCHANGED coreVars]_vars

\* C25 witness: a lookup has answered ready with the wait_time, another
\* participant being stored as well.
C25_Witness ==
    /\ resp.kind = "status" /\ resp.code = 200
    /\ resp.status = "ready" /\ resp.wait_time # <<>>
    /\ Len(users) = 2

\* worker w is suspended in send_callback (a POST or a backoff sleep) while a
\* participant other than the one being dispatched is due for expiration
DispatchWhileDue(w) ==
    /\ pc[w] = "callback"
    /\ ExpiredUsersQuery \ {cb[w].user} # {}

\* C26: while a callback dispatch is in progress in a process, the expiration
\* sweep of that process can run: with a participant due for expiration, the
\* sweep's query is a possible next step.
C26_DispatchDoesNotBlockSweep ==
    \A w \in Workers : DispatchWhileDue(w) => ENABLED CleanupQuery(w)

\* process_queues of worker w has processed every queue it loaded
CycleReleasesDone(w) == pc[w] = "queues" /\ qlist[w] = <<>>

\* C27: when a release pass has processed all its queues, the QUEUE_SIZE gauge
\* of every active queue equals the number of participants still waiting in
\* it after the releases of that pass, 0 included.
C27_GaugeIsRemainingDepth ==
    \A w \in Workers :
        CycleReleasesDone(w) =>
            \A q \in ActiveQueues : gauge[w][q] = Cardinality(WaitingIn(q))

\* the participants a result of the waiting_users query holds
Selected(s) == {s[i] : i \in 1..Len(s)}

\* C28: the participants a release pass selects in a queue are fixed by the
\* store: whatever results the waiting_users query can give in one state, also
\* with equal creation timestamps and a quota admitting only some of the
\* tied participants, they hold the same participants.
C28_SelectionDeterministic ==
    \A q \in Queues :
        \A s1, s2 \in WaitingUsersQuery(q) : Selected(s1) = Selected(s2)

\* worker w makes a step of cleanup_expired_tokens: its query or its commit
SweepStep(w) ==
    \/ pc[w] # "cleanup" /\ pc'[w] = "cleanup"
    \/ SweepCommits(w)

\* the participants whose status becomes expired in this step
NewlyExpired ==
    {u \in UserIds : users[u].status # "expired" /\ users'[u].status = "expired"}

\* C29: a participant becomes expired only in the commit of a sweep; a step
\* of the sweep starts no dispatch, makes no callback attempt and writes no
\* Log row, and changes no counter but USERS_EXPIRED, which it increments by
\* exactly the number of participants it expires.
C29_SweepIsSilent ==
    [][/\ NewlyExpired # {} => \E w \in Workers : SweepCommits(w)
       /\ \A w \in Workers :
             SweepStep(w) =>
                 /\ dispatched' = dispatched
                 /\ logs' = logs
                 /\ pc'[w] # "callback"
                 /\ cb'[w] = NoCb
                 /\ metrics' = [metrics EXCEPT
                                   ![w].expired = @ + Cardinality(NewlyExpired)]]_vars

\* C29 witness: one sweep has expired two participants, none of them was
\* dispatched or logged, the counter is at 2.
C29_Witness ==
    /\ Len(users) = 2
    /\ \A u \in UserIds : users[u].status = "expired" /\ logs[u] = 0
    /\ dispatched = [u \in 1..MaxUsers |-> 0]
    /\ metrics["w1"].expired = 2
    /\ pc["w1"] = "loop"

\* C30: a waiting participant has no wait_time; a wait_time once set never
\* changes; it is set only by the write that takes the participant from
\* waiting to ready, to the release time minus created_at, which is not
\* negative: a participant expired or cancelled while waiting never gets one.
C30_WaitTimeSetOnceAtRelease ==
    [][\A u \in UserIds :
          /\ users[u].status = "waiting" => users[u].wait_time = <<>>
          /\ users[u].wait_time # <<>> => users'[u].wait_time = users[u].wait_time
          /\ (users[u].wait_time = <<>> /\ users'[u].wait_time # <<>>) =>
                /\ users[u].status = "waiting"
                /\ users'[u].status = "ready"
                /\ users'[u].wait_time = <<now - users[u].created_at>>
                /\ now - users[u].created_at >= 0]_vars

\* worker w commits a release_user in this step
ReleaseCommits(w) == pc[w] = "release" /\ pc'[w] = "callback"

\* no worker moves in this step: it is a step of a request thread or of the
\* clock
NoWorkerStep == pc' = pc

\* participant u is stored before and after the step with a different status
StatusChanges(u) == u \in UserIds /\ users'[u].status # users[u].status

\* C31: a stored participant's status becomes ready only in the commit of
\* release_user and expired only in the commit of the sweep; a row added by
\* an admission has status waiting; a request thread changes a stored status
\* only to rejected (the cancellation).
C31_StatusWriters ==
    [][/\ \A u \in UserIds :
             /\ (StatusChanges(u) /\ users'[u].status = "ready") =>
                    \E w \in Workers : ReleaseCommits(w)
             /\ (StatusChanges(u) /\ users'[u].status = "expired") =>
                    \E w \in Workers : SweepCommits(w)
             /\ (StatusChanges(u) /\ NoWorkerStep) =>
                    users'[u].status = "rejected"
       /\ Len(users') > Len(users) =>
             /\ Len(users') = Len(users) + 1
             /\ users'[Len(users')].status = "waiting"
             /\ \A u \in UserIds : users'[u] = users[u]]_vars

\* C31 witness: of two participants admitted, one was released and then
\* cancelled, the other was expired by the sweep.
C31_Witness ==
    /\ Len(users) = 2
    /\ \E u, v \in UserIds :
          /\ users[u].status = "rejected" /\ releases[u] = 1
          /\ users[v].status = "expired"

\* the participants of queue q that are waiting
OwnWaiting(q) ==
    {u \in UserIds : users[u].queue_id = q /\ users[u].status = "waiting"}

\* the participants of queue q, in any status
OwnParticipants(q) == {u \in UserIds : users[u].queue_id = q}

\* the participants of queue q that are ready
OwnReady(q) ==
    {u \in UserIds : users[u].queue_id = q /\ users[u].status = "ready"}

\* process_queue of worker w has returned for curq[w]
QueueProcessed(w) == InPass(w) /\ pc[w] = "queues"

\* C32: with no arrivals and no cancellations, when process_queue returns for
\* a queue it has released exactly min(quota, participants that waited in
\* that queue) participants, whatever waits in or was released from the other
\* queue; and when the first pass has processed its queues, every active queue
\* has exactly min(its quota, its own participants) participants ready.
C32_QueuesReleaseIndependently ==
    \A w \in Workers :
        /\ QueueProcessed(w) =>
              ReleasedInPass(w) =
                  Min(queues[curq[w]].max_users_per_minute,
                      Cardinality(OwnWaiting(curq[w])) + ReleasedInPass(w))
        /\ (CycleReleasesDone(w) /\ cycles[w] = 0) =>
              \A q \in ActiveQueues :
                  Cardinality(OwnReady(q)) =
                      Min(queues[q].max_users_per_minute,
                          Cardinality(OwnParticipants(q)))

\* C32 witness: the first pass is over; the queue with quota 1 released its
\* only participant and so did the queue with quota 2.
C32_Witness ==
    /\ CycleReleasesDone("w1") /\ cycles["w1"] = 0
    /\ \E q, r \in ActiveQueues :
          /\ queues[q].max_users_per_minute = 1
          /\ queues[r].max_users_per_minute = 2
          /\ Cardinality(OwnReady(q)) = 1
          /\ Cardinality(OwnReady(r)) = 1

\* the queue is active and not soft-deleted
InService(q) == queues[q].is_active /\ ~queues[q].is_deleted

\* the queues a sequence holds
Loaded(qs) == {qs[i] : i \in 1..Len(qs)}

\* worker w starts a pass in this step
PassStarts(w) == pc[w] = "loop" /\ pc'[w] = "queues"

\* C33: a pass loads exactly the queues that are active and not soft-deleted
\* when it starts, loads no queue later, and releases only participants of
\* the queues it loaded: a participant waiting in a queue that is inactive or
\* soft-deleted when the pass starts is not made ready by that pass.
C33_ReleaseOnlyFromQueuesInService ==
    [][\A w \in Workers :
          /\ PassStarts(w) =>
                Loaded(qlist'[w]) = {q \in Queues : InService(q)}
          /\ ~PassStarts(w) => Loaded(qlist'[w]) \subseteq Loaded(qlist[w])
          /\ ReleaseCommits(w) =>
                \A u \in UserIds :
                    StatusChanges(u) => users[u].queue_id \in Loaded(qlist[w])]_vars

\* C33 witness: the pass under way loaded only q2 and has released its
\* participant, while a participant admitted earlier still waits in q1, which
\* is not in service.
C33_Witness ==
    /\ pc["w1"] = "callback" /\ qlist["w1"] = <<"q2">>
    /\ ~InService("q1")
    /\ Len(users) = 2
    /\ users[1].queue_id = "q1" /\ users[1].status = "waiting"
    /\ users[2].queue_id = "q2" /\ users[2].status = "ready"
    /\ metrics["w1"].released = 0

\* the last request answered was a delete of an application, answered 204
DeleteSucceeded == resp.kind = "delete_application" /\ resp.code = 204

\* C34: once delete_application has answered 204 for an application, the
\* listing of applications does not return it, and an admission presenting
\* its credential (here the next request served) is answered 401.
C34_DeletedApplicationIsGone ==
    [][DeleteSucceeded =>
          /\ \A a \in ListApplications : apps[a].api_key # resp.api_key
          /\ (resp'.kind = "join" /\ resp'.api_key = resp.api_key) =>
                resp'.code = 401]_vars

\* C35: the max_users_per_minute of every stored queue is a positive integer,
\* whatever updates were requested: an update carrying a zero or negative
\* quota is not applied.
C35_QuotaPositive ==
    \A q \in Queues : queues[q].max_users_per_minute > 0

\* stop() is called on worker w in this step
StopCalled(w) == lifespan[w] = "serving" /\ lifespan'[w] # "serving"

\* stop() has been called on worker w after start() had set running
StoppedAfterStart(w) == ~running[w] /\ pc[w] # "init"

\* C36: stop() leaves running false; once running is false in a worker whose
\* start() is under way it stays false and no pass starts: the iteration in
\* progress finishes (its sweep included) and nothing begins after it.
C36_StopEndsTheLoop ==
    [][\A w \in Workers :
          /\ StopCalled(w) => ~running'[w]
          /\ StoppedAfterStart(w) =>
                /\ ~running'[w]
                /\ ~PassStarts(w)
                /\ pc[w] \in {"loop", "returned", "cancelled"} =>
                      pc'[w] \in {pc[w], "returned", "cancelled"}]_vars

\* C36 witness: stop() was called during a dispatch; the iteration went on to
\* its sweep and start() returned at the while test, one participant released.
C36_Witness ==
    /\ lifespan["w1"] = "stopping" /\ ~running["w1"]
    /\ pc["w1"] = "returned"
    /\ metrics["w1"].released = 1

\* the participant's expires_at is in the past
PastExpiry(u) == users[u].expires_at < now

\* C37: release_user never makes ready a participant whose expires_at is
\* already in the past when the release is committed.
C37_NoReleasePastExpiry ==
    [][\A w \in Workers :
          ReleaseCommits(w) =>
              \A u \in UserIds :
                  (StatusChanges(u) /\ users'[u].status = "ready") =>
                      ~PastExpiry(u)]_vars

\* participant u is stored and waiting
StillWaiting(u) == u \in UserIds /\ users[u].status = "waiting"

\* C38: with the clock advancing and the worker cycle running on without
\* errors, every stored waiting participant eventually is not waiting any
\* more, also in a queue that is inactive, soft-deleted or holds more
\* participants than its quota releases.
C38_NobodyWaitsForever ==
    \A u \in 1..MaxUsers : StillWaiting(u) ~> ~StillWaiting(u)

\* C38 witness: a participant of a queue that is not in service has been
\* expired by the sweep.
C38_Witness ==
    \E u \in UserIds :
        /\ users[u].status = "expired"
        /\ ~InService(users[u].queue_id)

\* get_remaining_requests(c) is called in this step and nothing else happens
RemainingCalled(c) ==
    /\ requests'[c] # requests[c]
    /\ \A d \in ClientIds \ {c} : requests'[d] = requests[d]
    /\ UNCHANGED <<resp, allowed, denied, rltime>>

\* C39: get_remaining_requests(c) is max(0, max_requests - the number of
\* requests of c allowed within the trailing window) and never negative; a
\* call of it changes neither the result of an is_allowed(c) made at the same
\* clock reading, nor the list is_allowed would leave, nor its own result.
C39_RemainingIsReadOnly ==
    /\ [](\A c \in ClientIds :
            /\ GetRemainingRequests(c) >= 0
            /\ GetRemainingRequests(c) =
                  IF max_requests > InWindowCount(c)
                  THEN max_requests - InWindowCount(c) ELSE 0)
    /\ [][\A c \in ClientIds :
             RemainingCalled(c) =>
                /\ IsAllowed(c)' = IsAllowed(c)
                /\ Recorded(c)' = Recorded(c)
                /\ GetRemainingRequests(c)' = GetRemainingRequests(c)]_vars

\* C39 witness: a client that used its whole ceiling at reading 0 and made no
\* request at reading 2 has had its list pruned there by
\* get_remaining_requests, which answers the full ceiling again.
C39_Witness ==
    \E c \in ClientIds :
        /\ rltime = window_size
        /\ allowed[c][0] = max_requests
        /\ allowed[c][1] = 0
        /\ allowed[c][rltime] = 0 /\ ~denied[c][rltime]
        /\ requests[c] = <<>>
        /\ GetRemainingRequests(c) = max_requests

\* the request answered in this step was to a service path
ServiceRequest == resp' # resp /\ resp'.kind \in ServicePaths

\* C40: a request of one client id, allowed or rejected, leaves the list, the
\* is_allowed result and the remaining budget of every other client id as
\* they were; a request to /health, /metrics, /docs or /openapi.json is never
\* answered 429 and leaves the rate limiter as it is.
C40_PerClientAndExemptPaths ==
    [][/\ \A c \in ClientIds :
             RequestFrom(c) =>
                \A d \in ClientIds \ {c} :
                    /\ requests'[d] = requests[d]
                    /\ allowed'[d] = allowed[d]
                    /\ denied'[d] = denied[d]
                    /\ IsAllowed(d)' = IsAllowed(d)
                    /\ GetRemainingRequests(d)' = GetRemainingRequests(d)
       /\ ServiceRequest =>
             /\ resp'.code = 200
             /\ UNCHANGED <<requests, allowed, denied>>]_vars

\* C40 witness: a client whose ceiling is exhausted has just been answered
\* 200 on /health, after another client was allowed a request.
C40_Witness ==
    \E c, d \in ClientIds :
        /\ c # d
        /\ InWindowCount(c) = max_requests
        /\ denied[c][rltime]
        /\ resp.kind = "/health" /\ resp.client = c /\ resp.code = 200
        /\ allowed[d][rltime] = 1

====
